---- MODULE Spec2Model ----
(***************************************************************************)
(* MOLD agent (src/create_mold_agent.py): a three-node graph               *)
(*   START -> chatbot -> smart_route -> {tools | molds | END}              *)
(*   tools -> chatbot, molds -> chatbot                                    *)
(* over a session state made of the message history and one optional      *)
(* field per registered mold.                                              *)
(*                                                                         *)
(* Names are sequences of tokens, so that the two string operations the    *)
(* code performs on them - name.endswith("_mold") and                      *)
(* name.replace("_mold", "") - are computed and not assumed:               *)
(* "profile_mold" is <<"profile", "_mold">>, "search" is <<"search">>.     *)
(***************************************************************************)
EXTENDS Integers, Sequences, FiniteSets, TLC

VARIABLES
    messages,    \* state["messages"]: the conversation history
    fields,      \* the other keys of the session state (mold fields)
    pc,          \* the node the graph runs next; "END"; or "failed"
    err,         \* the exception that aborted the run, or None
    prompt,      \* the prompt argument of create_mold_agent
    registry,    \* _MOLD_STATE_REGISTRY
    llm_input,   \* the message list of the latest llm_with_tools.ainvoke
    bound_tools, \* the tool names of the latest llm_model.bind_tools
    invoked,     \* every handler .invoke made so far, in order
    results,     \* what the handlers of the latest executor step returned
    named,       \* state keys named by the Commands of finished mold steps
    requested,   \* number of actions the model has requested so far
    llm_calls,   \* number of llm_with_tools.ainvoke calls so far
    returned,    \* what the latest direct call of a function returned
    declarations,\* the @mold declarations made so far, in order
    shape        \* the latest create_dynamic_mold_state call and its result

vars == <<messages, fields, pc, err, prompt, registry, llm_input,
          bound_tools, invoked, results, named, requested, llm_calls,
          returned, declarations, shape>>

\* what a run of the graph never touches
setup_vars == <<registry, returned, declarations, shape>>

\* ---------------------------------------------------------------- bounds
\* the model requests at most MaxCalls actions in one run
MaxCalls == 3
\* at most MaxDeclares @mold declarations are made
MaxDeclares == 3
\* create_dynamic_mold_state is given at most MaxMolds molds
MaxMolds == 2
\* requested actions of the last message a function is called on directly
MaxDirect == 2

\* ------------------------------------------------------------- constants
None == "None"
END == "__end__"
MOLD == "_mold"

\* no create_dynamic_mold_state call yet; no direct call yet
NoShape == [assembled |-> FALSE]
NoReturn == [kind |-> "none"]

\* ------------------------------------------------------------ name model
RECURSIVE replace_mold(_)
replace_mold(name) ==
    IF name = <<>> THEN <<>>
    ELSE IF Head(name) = MOLD THEN replace_mold(Tail(name))
    ELSE <<Head(name)>> \o replace_mold(Tail(name))

endswith_mold(name) == Len(name) > 0 /\ name[Len(name)] = MOLD

\* ----------------------------------------------------------- agent setup
search == <<"search">>
profile_mold == <<"profile", MOLD>>
notes_mold == <<"notes", MOLD>>
memo_mold == <<"memo", MOLD>>
ghost == <<"ghost">>
ghost_mold == <<"ghost", MOLD>>

\* the tools and molds arguments of create_mold_agent
tools == <<search>>
molds == <<profile_mold, notes_mold, memo_mold>>

\* memo is a mold declared without a type annotation: never registered
RunRegistry == [f \in {<<"profile">>, <<"notes">>, <<"other">>} |-> "type"]

Range(s) == {s[i] : i \in 1..Len(s)}

tools_by_name == Range(tools)
mold_tools_by_name == Range(molds)

create_state_strip_suffix(mold_list, reg) ==
    {<<"messages">>} \cup
    ({SubSeq(mold_list[i], 1, Len(mold_list[i]) - 1) : i \in 1..Len(mold_list)}
        \cap DOMAIN reg)

\* the keys of DynamicMoldState: "messages" and the field of every mold
\* of the list whose field name is in the registry
create_dynamic_mold_state(mold_list, reg) ==
    {<<"messages">>} \cup
    ({replace_mold(mold_list[i]) : i \in 1..Len(mold_list)} \cap DOMAIN reg)

\* -------------------------------------------------------------- messages
MSG == <<"messages">>

HumanMessage(content) == [type |-> "human", content |-> content]
SystemMessage(content) == [type |-> "system", content |-> content]
AIMessage(tool_calls) == [type |-> "ai", content |-> "", tool_calls |-> tool_calls]
ToolMessage(content, name, tool_call_id) ==
    [type |-> "tool", content |-> content, name |-> name,
     tool_call_id |-> tool_call_id]

ToolCall(name, id) == [name |-> name, args |-> <<"args", id>>, id |-> id]

json_dumps(v) == <<"json", v>>

\* the add_messages reducer of the "messages" channel; every message the
\* nodes produce is new (no id of an earlier message), so it is appended
overwrite_messages(left, right) == right

add_messages(left, right) == left \o right

\* ------------------------------------------------- handlers (collaborators)
\* a node that raises returns nothing: the status of its record names the
\* exception, and messages and updates are its locals (outputs,
\* state_updates) at the raise, which nothing reads
\* what a handler does when invoked: return a value, return a Command,
\* or raise
Raise == [kind |-> "raise"]
Skipped == [kind |-> "skipped"]

NoHandler == [kind |-> "none"]

ToolOutcomes == {[kind |-> "value", value |-> "hit"], Raise}

MoldBehaviours == {"plain", "cmdA", "cmdB", "cmdN", "raise"}

MoldOutcome(tool_call, b) ==
    LET m(k) == ToolMessage(<<"done", k>>, tool_call.name, tool_call.id) IN
    CASE b = "plain" -> [kind |-> "value", value |-> "text"]
      [] b = "cmdA" -> [kind |-> "Command",
                        update |-> (MSG :> <<m(1)>>) @@ (<<"profile">> :> "A")]
      [] b = "cmdB" -> [kind |-> "Command",
                        update |-> (MSG :> <<m(1), m(2)>>)
                                   @@ (<<"profile">> :> "B")
                                   @@ (<<"notes">> :> "B")]
      [] b = "cmdN" -> [kind |-> "Command",
                        update |-> (<<"notes">> :> "A") @@ (<<"memo">> :> "A")]
      [] OTHER -> Raise

Invocation(node, tool_call, payload) ==
    [node |-> node, name |-> tool_call.name, id |-> tool_call.id,
     payload |-> payload]

\* outputs.append(message)
list_insert0(outputs, message) == <<message>> \o outputs

list_append(outputs, message) == Append(outputs, message)

\* --------------------------------------------------------- BasicToolNode
RECURSIVE ToolLoop(_, _, _, _, _, _)
ToolLoop(calls, outs, i, outputs, log, rets) ==
    IF i > Len(calls)
    THEN [status |-> "ok", messages |-> outputs, updates |-> <<>>,
          log |-> log, rets |-> rets]
    ELSE LET tool_call == calls[i] IN
         IF tool_call.name \notin tools_by_name
         THEN [status |-> "KeyError", messages |-> outputs, updates |-> <<>>,
               log |-> log, rets |-> rets]
         ELSE LET log2 == Append(log, Invocation("tools", tool_call, tool_call.args))
              IN IF outs[i].kind = "raise"
                 THEN [status |-> "ActionError", messages |-> outputs,
                       updates |-> <<>>, log |-> log2, rets |-> rets]
                 ELSE ToolLoop(calls, outs, i + 1,
                               list_append(outputs,
                                           ToolMessage(json_dumps(outs[i].value),
                                                       tool_call.name,
                                                       tool_call.id)),
                               log2, Append(rets, outs[i]))

BasicToolNode_empty_update(inputs, outs) ==
    IF inputs.messages = <<>>
    THEN [status |-> "ok", messages |-> <<>>, updates |-> <<>>,
          log |-> <<>>, rets |-> <<>>]
    ELSE ToolLoop(inputs.messages[Len(inputs.messages)].tool_calls, outs,
                  1, <<>>, <<>>, <<>>)

\* an empty or missing "messages" raises ValueError
BasicToolNode(inputs, outs) ==
    IF inputs.messages = <<>>
    THEN [status |-> "ValueError", messages |-> <<>>, updates |-> <<>>,
               log |-> <<>>, rets |-> <<>>]
    ELSE LET message == inputs.messages[Len(inputs.messages)] IN
         IF "tool_calls" \notin DOMAIN message
         THEN [status |-> "AttributeError", messages |-> <<>>, updates |-> <<>>,
               log |-> <<>>, rets |-> <<>>]
         ELSE ToolLoop(message.tool_calls, outs, 1, <<>>, <<>>, <<>>)

\* --------------------------------------------------------- BasicMoldNode
\* outputs.extend(update["messages"]) when the Command carries messages
extend_first_only(outputs, update) ==
    IF MSG \in DOMAIN update /\ update[MSG] # <<>>
    THEN Append(outputs, update[MSG][1]) ELSE outputs

extend_outputs(outputs, update) ==
    IF MSG \in DOMAIN update THEN outputs \o update[MSG] ELSE outputs

dict_setdefault(state_updates, update) ==
    [k \in (DOMAIN state_updates) \cup ((DOMAIN update) \ {MSG}) |->
        IF k \in DOMAIN state_updates THEN state_updates[k] ELSE update[k]]

\* state_updates[key] = value for every key of update but "messages"
dict_update(state_updates, update) ==
    [k \in (DOMAIN state_updates) \cup ((DOMAIN update) \ {MSG}) |->
        IF k \in (DOMAIN update) \ {MSG} THEN update[k] ELSE state_updates[k]]

RECURSIVE MoldLoop(_, _, _, _, _, _, _)
MoldLoop(calls, outs, i, outputs, state_updates, log, rets) ==
    IF i > Len(calls)
    THEN [status |-> "ok", messages |-> outputs, updates |-> state_updates,
          log |-> log, rets |-> rets]
    ELSE LET tool_call == calls[i] IN
         IF endswith_mold(tool_call.name)
         THEN IF tool_call.name \notin mold_tools_by_name
              THEN [status |-> "KeyError", messages |-> outputs,
                    updates |-> state_updates, log |-> log, rets |-> rets]
              ELSE LET log2 == Append(log, Invocation("molds", tool_call, tool_call))
                       tool_result == outs[i]
                   IN IF tool_result.kind = "raise"
                      THEN [status |-> "ActionError", messages |-> outputs,
                            updates |-> state_updates, log |-> log2,
                            rets |-> rets]
                      ELSE IF tool_result.kind = "Command"
                      THEN MoldLoop(calls, outs, i + 1,
                                    extend_outputs(outputs, tool_result.update),
                                    dict_update(state_updates, tool_result.update),
                                    log2, Append(rets, tool_result))
                      ELSE MoldLoop(calls, outs, i + 1,
                                    list_append(outputs,
                                                ToolMessage(tool_result.value,
                                                            tool_call.name,
                                                            tool_call.id)),
                                    state_updates, log2, Append(rets, tool_result))
         ELSE MoldLoop(calls, outs, i + 1, outputs, state_updates, log,
                       Append(rets, Skipped))

BasicMoldNode(inputs, outs) ==
    IF inputs.messages = <<>>
    THEN [status |-> "IndexError", messages |-> <<>>, updates |-> <<>>,
               log |-> <<>>, rets |-> <<>>]
    ELSE LET message == inputs.messages[Len(inputs.messages)] IN
         IF "tool_calls" \notin DOMAIN message
         THEN [status |-> "AttributeError", messages |-> <<>>, updates |-> <<>>,
               log |-> <<>>, rets |-> <<>>]
         ELSE MoldLoop(message.tool_calls, outs, 1, <<>>, <<>>, <<>>, <<>>)

\* ----------------------------------------------------------- smart_route
RECURSIVE any_mold(_)
any_mold(calls) ==
    IF calls = <<>> THEN FALSE
    ELSE IF endswith_mold(Head(calls).name) THEN TRUE
    ELSE any_mold(Tail(calls))

smart_route_first(state) ==
    LET ai_message == state.messages[Len(state.messages)] IN
    IF "tool_calls" \in DOMAIN ai_message /\ Len(ai_message.tool_calls) > 0
    THEN IF endswith_mold(ai_message.tool_calls[1].name) THEN "molds" ELSE "tools"
    ELSE END

smart_route_no_tools(state) ==
    LET ai_message == state.messages[Len(state.messages)] IN
    IF "tool_calls" \in DOMAIN ai_message /\ Len(ai_message.tool_calls) > 0
       /\ any_mold(ai_message.tool_calls)
    THEN "molds"
    ELSE END

\* state["messages"][-1] raises IndexError on an empty list
smart_route(state) ==
    IF state.messages = <<>> THEN "IndexError"
    ELSE LET ai_message == state.messages[Len(state.messages)] IN
         IF "tool_calls" \in DOMAIN ai_message /\ Len(ai_message.tool_calls) > 0
         THEN IF any_mold(ai_message.tool_calls) THEN "molds" ELSE "tools"
         ELSE END

\* --------------------------------------------------------------- chatbot
has_system(msgs) == \E i \in 1..Len(msgs) : msgs[i].type = "system"

chatbot_input_first_only(state, p) ==
    IF p # "" /\ ~has_system(state.messages) /\ llm_calls = 0
    THEN <<SystemMessage(p)>> \o state.messages
    ELSE state.messages

\* the list handed to the model: the system prompt is put in front of a
\* local copy, never into the state
chatbot_input(state, p) ==
    IF p # "" /\ ~has_system(state.messages)
    THEN <<SystemMessage(p)>> \o state.messages
    ELSE state.messages

chatbot_writes_field(state, response) ==
    [messages |-> <<response>>, updates |-> (<<"profile">> :> "draft")]

chatbot_returns_all(state, response) ==
    [messages |-> Append(state.messages, response), updates |-> <<>>]

\* return {"messages": [response]}
chatbot(state, response) == [messages |-> <<response>>, updates |-> <<>>]

\* ------------------------------------------------------ the compiled graph
\* StateGraph(DynamicMoldState): a node's returned dict is merged into the
\* state channel by channel; "messages" goes through add_messages, a mold
\* field takes the new value, a key that is no channel of the state is
\* dropped
apply_update_unfiltered(state, update) ==
    [messages |-> add_messages(state.messages, update.messages),
     fields |-> [f \in (DOMAIN state.fields) \cup (DOMAIN update.updates) |->
                    IF f \in DOMAIN update.updates
                    THEN update.updates[f] ELSE state.fields[f]]]

apply_update(state, update) ==
    [messages |-> add_messages(state.messages, update.messages),
     fields |-> [f \in DOMAIN state.fields |->
                    IF f \in DOMAIN update.updates
                    THEN update.updates[f] ELSE state.fields[f]]]

edge_tools_to_molds(node) == IF node = "tools" THEN "molds" ELSE "chatbot"

\* add_edge(START, "chatbot"), add_edge("tools", "chatbot"),
\* add_edge("molds", "chatbot")
edge(node) == "chatbot"

conditional_edges_swapped(outcome) ==
    CASE outcome = "tools" -> "molds"
      [] outcome = "molds" -> "tools"
      [] outcome = END -> "END"

conditional_edges_no_end(outcome) ==
    CASE outcome = "tools" -> "tools"
      [] outcome = "molds" -> "molds"
      [] outcome = END -> "route"

\* add_conditional_edges("chatbot", smart_route, {...})
conditional_edges(outcome) ==
    CASE outcome = "tools" -> "tools"
      [] outcome = "molds" -> "molds"
      [] outcome = END -> "END"

State == [messages |-> messages, fields |-> fields]

\* ------------------------------------------------------------ the inputs
RequestNames == {search, profile_mold, ghost, ghost_mold}

InitHistories ==
    {<<>>,
     <<HumanMessage("hi")>>,
     <<SystemMessage("rules"), HumanMessage("hi")>>}

Prompts == {"", "be brief"}

\* the responses the model may give at history position pos: at most max
\* requested actions, with call ids unique in the run
Batches(max) == UNION {[1..k -> RequestNames] : k \in 0..max}

Responses(pos, max) ==
    {AIMessage([i \in 1..Len(names) |-> ToolCall(names[i], <<pos, i>>)]) :
        names \in Batches(max)}

\* what the handler of each requested action does if the node invokes it
Outcomes(tool_call) ==
    IF tool_call.name \in tools_by_name THEN ToolOutcomes
    ELSE IF tool_call.name \in mold_tools_by_name
    THEN {MoldOutcome(tool_call, b) : b \in MoldBehaviours}
    ELSE {NoHandler}

HandlerChoices(calls) ==
    {outs \in [1..Len(calls) -> UNION {Outcomes(calls[i]) : i \in 1..Len(calls)}] :
        \A i \in 1..Len(calls) : outs[i] \in Outcomes(calls[i])}

LastCalls == messages[Len(messages)].tool_calls

keys_named(rets) ==
    UNION {(DOMAIN rets[i].update) \ {MSG} :
              i \in {j \in 1..Len(rets) : rets[j].kind = "Command"}}

\* ------------------------------------------------------------------ Init
Init ==
    /\ messages \in InitHistories
    /\ prompt \in Prompts
    /\ registry = RunRegistry
    /\ fields = [f \in create_dynamic_mold_state(molds, RunRegistry) \ {MSG}
                    |-> None]
    /\ pc = edge("START")
    /\ err = None
    /\ llm_input = <<>>
    /\ bound_tools = <<>>
    /\ invoked = <<>>
    /\ results = <<>>
    /\ named = {}
    /\ requested = 0
    /\ llm_calls = 0
    /\ returned = NoReturn
    /\ declarations = <<>>
    /\ shape = NoShape

\* --------------------------------------------------------------- actions
\* the chatbot node: one model invocation, which answers or fails
Chatbot ==
    /\ pc = "chatbot"
    /\ bound_tools' = tools \o molds
    /\ llm_calls' = llm_calls + 1
    /\ llm_input' = chatbot_input(State, prompt)
    /\ \/ \E response \in Responses(Len(messages) + 1, MaxCalls - requested) :
             LET new == apply_update(State, chatbot(State, response)) IN
             /\ messages' = new.messages
             /\ fields' = new.fields
             /\ requested' = requested + Len(response.tool_calls)
             /\ pc' = "route"
             /\ err' = err
       \/ /\ pc' = "failed"
          /\ err' = "ModelError"
          /\ UNCHANGED <<messages, fields, requested>>
    /\ UNCHANGED <<prompt, invoked, results, named, setup_vars>>

\* the conditional edge out of chatbot
Route ==
    /\ pc = "route"
    /\ pc' = conditional_edges(smart_route(State))
    /\ UNCHANGED <<messages, fields, err, prompt, llm_input, bound_tools,
                   invoked, results, named, requested, llm_calls, setup_vars>>

\* a node step: the node's return value is merged into the state, or the
\* exception it raised aborts the run with the state as it was
Finish_keeps_partial(node, r) ==
    /\ invoked' = invoked \o r.log
    /\ results' = r.rets
    /\ LET new == apply_update(State, r) IN
       /\ messages' = new.messages
       /\ fields' = new.fields
    /\ named' = named \cup keys_named(r.rets)
    /\ IF r.status = "ok"
       THEN pc' = edge(node) /\ err' = err
       ELSE pc' = "failed" /\ err' = r.status
    /\ UNCHANGED <<prompt, llm_input, bound_tools, requested, llm_calls,
                   setup_vars>>

Finish(node, r) ==
    /\ invoked' = invoked \o r.log
    /\ results' = r.rets
    /\ IF r.status = "ok"
       THEN LET new == apply_update(State, r) IN
            /\ messages' = new.messages
            /\ fields' = new.fields
            /\ named' = named \cup keys_named(r.rets)
            /\ pc' = edge(node)
            /\ err' = err
       ELSE /\ pc' = "failed"
            /\ err' = r.status
            /\ UNCHANGED <<messages, fields, named>>
    /\ UNCHANGED <<prompt, llm_input, bound_tools, requested, llm_calls,
                   setup_vars>>

Tools ==
    /\ pc = "tools"
    /\ \E outs \in HandlerChoices(LastCalls) :
          Finish("tools", BasicToolNode(State, outs))

Molds ==
    /\ pc = "molds"
    /\ \E outs \in HandlerChoices(LastCalls) :
          Finish("molds", BasicMoldNode(State, outs))

Next == Chatbot \/ Route \/ Tools \/ Molds

Spec == Init /\ [][Next]_vars

\* the runner of the compiled graph does not stall: it invokes the chatbot
\* node when an edge leads to it and follows the conditional edge after it
LiveSpec == Init /\ [][Next]_vars /\ WF_vars(Chatbot) /\ WF_vars(Route)

TypeOK ==
    /\ pc \in {"chatbot", "route", "tools", "molds", "END", "failed",
              "setup", "idle", "called"}
    /\ requested \in 0..MaxCalls

\* ------------------------------------------------- declaring and assembling
\* a decorated function: its __name__ and the annotation of its data
\* parameter (the first parameter that is not tool_call_id), Empty when
\* there is no such parameter or it has no annotation
Empty == "empty"

Func(name, annotation) == [name |-> name, annotation |-> annotation]

Funcs ==
    {Func(<<"profile", MOLD>>, a) : a \in {"T1", "T2", Empty}}
    \cup {Func(n, a) : n \in {<<"notes">>, <<"memo">>}, a \in {"T1", Empty}}

\* the registry after mold(func)
mold_overwrites_nothing(reg, func) ==
    LET field_name == replace_mold(func.name) IN
    IF func.annotation # Empty /\ field_name \notin DOMAIN reg
    THEN (field_name :> func.annotation) @@ reg
    ELSE reg

mold_registers_untyped(reg, func) ==
    (replace_mold(func.name) :> func.annotation) @@ reg

mold_register(reg, func) ==
    LET field_name == replace_mold(func.name) IN
    IF func.annotation # Empty
    THEN (field_name :> func.annotation) @@ reg
    ELSE reg

\* the tool mold(func) returns
mold_tool(func) == [name |-> func.name \o <<MOLD>>, func |-> func.name]

Declared == {mold_tool(declarations[i]) : i \in 1..Len(declarations)}

MoldLists == UNION {[1..k -> Declared] : k \in 0..MaxMolds}

SetupInit ==
    /\ registry = <<>>
    /\ declarations = <<>>
    /\ shape = NoShape
    /\ pc = "setup"
    /\ messages = <<>>
    /\ fields = <<>>
    /\ err = None
    /\ prompt = ""
    /\ llm_input = <<>>
    /\ bound_tools = <<>>
    /\ invoked = <<>>
    /\ results = <<>>
    /\ named = {}
    /\ requested = 0
    /\ llm_calls = 0
    /\ returned = NoReturn

run_vars == <<messages, fields, pc, err, prompt, llm_input, bound_tools,
              invoked, results, named, requested, llm_calls, returned>>

\* @mold on a function
Declare ==
    /\ Len(declarations) < MaxDeclares
    /\ \E func \in Funcs :
          /\ declarations' = Append(declarations, func)
          /\ registry' = mold_register(registry, func)
    /\ UNCHANGED <<shape, run_vars>>

\* create_mold_agent building the state type from its molds
Assemble ==
    /\ \E mold_list \in MoldLists :
          shape' = [molds |-> mold_list,
                    registry |-> registry,
                    keys |-> create_dynamic_mold_state(
                                 [i \in 1..Len(mold_list) |-> mold_list[i].name],
                                 registry)]
    /\ UNCHANGED <<registry, declarations, run_vars>>

SetupNext == Declare \/ Assemble

SpecSetup == SetupInit /\ [][SetupNext]_vars

\* ------------------------------------------- the functions called directly
\* smart_route and the two node callables applied to a state outside a run,
\* the empty history included
DirectHistories ==
    {<<>>, <<HumanMessage("hi")>>}
    \cup {<<HumanMessage("hi"), r>> : r \in Responses(2, MaxDirect)}

DirectCalls ==
    IF messages # <<>> /\ "tool_calls" \in DOMAIN messages[Len(messages)]
    THEN messages[Len(messages)].tool_calls
    ELSE <<>>

RouteOutcomes == {"tools", "molds", END}

Returns(by, value) == [kind |-> "value", by |-> by, value |-> value]

Raises(by, error) == [kind |-> "raise", by |-> by, error |-> error]

DirectInit ==
    /\ messages \in DirectHistories
    /\ prompt = ""
    /\ registry = RunRegistry
    /\ fields = [f \in create_dynamic_mold_state(molds, RunRegistry) \ {MSG}
                    |-> None]
    /\ pc = "idle"
    /\ err = None
    /\ llm_input = <<>>
    /\ bound_tools = <<>>
    /\ invoked = <<>>
    /\ results = <<>>
    /\ named = {}
    /\ requested = 0
    /\ llm_calls = 0
    /\ returned = NoReturn
    /\ declarations = <<>>
    /\ shape = NoShape

CallRoute ==
    /\ pc = "idle"
    /\ LET outcome == smart_route(State) IN
       returned' = IF outcome \in RouteOutcomes
                   THEN Returns("smart_route", outcome)
                   ELSE Raises("smart_route", outcome)
    /\ pc' = "called"
    /\ UNCHANGED <<messages, fields, err, prompt, registry, llm_input,
                   bound_tools, invoked, results, named, requested,
                   llm_calls, declarations, shape>>

CallNode(by, r) ==
    /\ pc = "idle"
    /\ returned' = IF r.status = "ok"
                   THEN Returns(by, [messages |-> r.messages,
                                     updates |-> r.updates])
                   ELSE Raises(by, r.status)
    /\ invoked' = r.log
    /\ results' = r.rets
    /\ pc' = "called"
    /\ UNCHANGED <<messages, fields, err, prompt, registry, llm_input,
                   bound_tools, named, requested, llm_calls, declarations,
                   shape>>

CallTools ==
    \E outs \in HandlerChoices(DirectCalls) :
        CallNode("tools", BasicToolNode(State, outs))

CallMolds ==
    \E outs \in HandlerChoices(DirectCalls) :
        CallNode("molds", BasicMoldNode(State, outs))

DirectNext == CallRoute \/ CallTools \/ CallMolds

SpecDirect == DirectInit /\ [][DirectNext]_vars

\* ================================================================ claims
Last(seq) == seq[Len(seq)]

IsModelResponse(m) == m.type = "ai"

InTables(name) == name \in tools_by_name \cup mold_tools_by_name

Marked(name) == name # <<>> /\ Last(name) = MOLD

\* the model responses of the history, as positions
Responded == {k \in 1..Len(messages) : IsModelResponse(messages[k])}

\* C1: smart_route depends on the last message alone: END when it is no
\* model response or requests nothing, "molds" when some requested name ends
\* with _mold (wherever it stands in the batch), "tools" otherwise; the
\* earlier history and the mold fields do not change the outcome.
C1_RouteOfLastMessage ==
    messages # <<>> =>
        LET m == Last(messages)
            expected ==
                IF ~IsModelResponse(m) \/ m.tool_calls = <<>> THEN END
                ELSE IF \E i \in 1..Len(m.tool_calls) : Marked(m.tool_calls[i].name)
                THEN "molds"
                ELSE "tools"
        IN /\ smart_route(State) = expected
           /\ smart_route([messages |-> <<m>>, fields |-> <<>>]) = expected

\* a mixed batch with the marked name in second place, routed to molds,
\* in a run whose earlier history already changed a mold field
C1_Witness ==
    /\ pc = "molds"
    /\ Len(LastCalls) = 2
    /\ ~Marked(LastCalls[1].name)
    /\ Marked(LastCalls[2].name)
    /\ Len(messages) > 2
    /\ \E f \in DOMAIN fields : fields[f] # None

\* C2: when the next reasoning step is due, every requested action whose
\* name is in a table has been invoked exactly once, by the node that owns
\* the name.
C2_ConsumedExactlyOnce ==
    pc = "chatbot" =>
        \A k \in Responded : \A i \in 1..Len(messages[k].tool_calls) :
            LET tool_call == messages[k].tool_calls[i]
                uses == {j \in 1..Len(invoked) : invoked[j].id = tool_call.id}
            IN InTables(tool_call.name) =>
                  /\ Cardinality(uses) = 1
                  /\ \A j \in uses :
                        invoked[j].node =
                            IF tool_call.name \in tools_by_name
                            THEN "tools" ELSE "molds"

\* C3: no executor step completes on a batch that requests a name of
\* neither table: the run has aborted instead.
C3_UnknownActionAborts ==
    pc = "chatbot" =>
        \A k \in Responded : \A i \in 1..Len(messages[k].tool_calls) :
            InTables(messages[k].tool_calls[i].name)

\* C4: every step leaves the old history as a prefix of the new one.
C4_HistoryAppendOnly ==
    [][/\ Len(messages') >= Len(messages)
       /\ SubSeq(messages', 1, Len(messages)) = messages]_vars

\* the three node kinds have each extended a history whose prompt was
\* given to the model as a system message
C4_Witness ==
    /\ pc = "route"
    /\ prompt # ""
    /\ ~has_system(messages)
    /\ llm_input[1].type = "system"
    /\ \E j \in 1..Len(invoked) : invoked[j].node = "tools"
    /\ \E j \in 1..Len(invoked) : invoked[j].node = "molds"

\* the Commands of the latest executor step that name key f
Writers(f) ==
    {i \in 1..Len(results) :
        results[i].kind = "Command" /\ f \in DOMAIN results[i].update}

Max(S) == CHOOSE x \in S : \A y \in S : y <= x

\* C5: after a mold step every state field named by Commands of the batch
\* holds the value of the last Command, in request order, that names it.
C5_LastWriteWins ==
    pc # "failed" =>
        \A f \in DOMAIN fields :
            Writers(f) # {} => fields[f] = results[Max(Writers(f))].update[f]

\* two Commands of one batch give the same field different values
C5_Witness ==
    /\ pc = "chatbot"
    /\ \E f \in DOMAIN fields : \E i, j \in Writers(f) :
          /\ i < j
          /\ results[i].update[f] # results[j].update[f]
    /\ \E f, g \in DOMAIN fields :
          /\ f # g
          /\ Writers(f) # {}
          /\ Writers(g) # {}
          /\ Writers(f) # Writers(g)

\* C6: the run is at END only with a model response that requests nothing
\* as the last message; a step reaches END only from the routing decision
\* and exactly when smart_route returns END; nothing happens after END.
C6_EndsOnTerminate ==
    /\ [](pc = "END" =>
             /\ messages # <<>>
             /\ IsModelResponse(Last(messages))
             /\ Last(messages).tool_calls = <<>>)
    /\ [][/\ pc # "END"
          /\ pc' = "END" => pc = "route"
          /\ pc = "route" => (pc' = "END" <=> smart_route(State) = END)]_vars

\* a run that ended after going through an executor
C6_Witness ==
    /\ pc = "END"
    /\ invoked # <<>>
    /\ Len(messages) > 3

\* C7: the run starts at the reasoning node; a reasoning step is followed
\* by the routing decision, the routing decision by one executor or by the
\* end, an executor step by a reasoning step (a failed step ends the run).
C7_StrictAlternation ==
    /\ pc = "chatbot"
    /\ [][/\ pc = "chatbot" => pc' \in {"route", "failed"}
          /\ pc = "route" => pc' \in {"tools", "molds", "END"}
          /\ pc \in {"tools", "molds"} => pc' \in {"chatbot", "failed"}
          /\ pc \notin {"END", "failed"}]_vars

\* the reasoning node is due again after both an ordinary and a mold step
C7_Witness ==
    /\ pc = "chatbot"
    /\ \E j \in 1..Len(invoked) : invoked[j].node = "tools"
    /\ \E j \in 1..Len(invoked) : invoked[j].node = "molds"

\* the result message of the i-th requested action
ResultOf(tool_call, content) ==
    [type |-> "tool", content |-> content, name |-> tool_call.name,
     tool_call_id |-> tool_call.id]

IsSuffix(s, t) ==
    /\ Len(s) <= Len(t)
    /\ SubSeq(t, Len(t) - Len(s) + 1, Len(t)) = s

\* C8: a completed tools step on n requested actions, all of the tools
\* table, appends n result messages, the i-th with the id and the name of
\* the i-th request and the serialized result of its handler; the model is
\* then invoked on a list that ends with the whole history.
C8_ToolResultsAppended ==
    [][/\ (/\ pc = "tools"
           /\ \A i \in 1..Len(LastCalls) : LastCalls[i].name \in tools_by_name
           /\ pc' # "failed")
          => /\ pc' = "chatbot"
             /\ Len(results') = Len(LastCalls)
             /\ messages' = messages \o
                   [i \in 1..Len(LastCalls) |->
                       ResultOf(LastCalls[i], <<"json", results'[i].value>>)]
       /\ pc = "chatbot" => IsSuffix(messages, llm_input')]_vars

\* the model has been invoked on a history that ends with the two results
\* of a batch of two ordinary actions
C8_Witness ==
    /\ pc = "route"
    /\ Len(llm_input) > 3
    /\ LET n == Len(llm_input) IN
       /\ llm_input[n].type = "tool"
       /\ llm_input[n - 1].type = "tool"
       /\ llm_input[n].name = search
       /\ llm_input[n - 1].name = search
       /\ llm_input[n - 2].type = "ai"
       /\ Len(llm_input[n - 2].tool_calls) = 2

\* C9: the chatbot node, the routing decision and the tools node leave
\* every mold field as it was; a molds step leaves every field that no
\* Command of its batch names; a field that is set has been named by a
\* Command of a completed molds step.
C9_FieldsWrittenByMoldsOnly ==
    /\ [](\A f \in DOMAIN fields : fields[f] # None => f \in named)
    /\ [][/\ pc \in {"chatbot", "route", "tools"} => fields' = fields
          /\ pc = "molds" =>
                \A f \in DOMAIN fields :
                    f \notin keys_named(results') => fields'[f] = fields[f]]_vars

\* a tools step and a reasoning step have run on a state with one field
\* set and another still unset
C9_Witness ==
    /\ pc = "route"
    /\ fields[<<"profile">>] # None
    /\ fields[<<"notes">>] = None
    /\ Len(messages) > 2
    /\ messages[Len(messages) - 1].type = "tool"
    /\ messages[Len(messages) - 1].name = search

\* the messages a molds step owes for request i, given what its handler
\* returned
Owed(tool_call, ret) ==
    IF ret.kind = "value" THEN <<ResultOf(tool_call, ret.value)>>
    ELSE IF ret.kind = "Command" /\ MSG \in DOMAIN ret.update
    THEN ret.update[MSG]
    ELSE <<>>

RECURSIVE Flatten(_)
Flatten(seqs) ==
    IF seqs = <<>> THEN <<>> ELSE Head(seqs) \o Flatten(Tail(seqs))

\* C10: a completed molds step appends, in request order, one result
\* message for each mold that returned a plain payload and the messages of
\* each Command (none when it has none), and every update a Command makes
\* to a state field is in the state afterwards unless a later Command of
\* the batch updates the same field.
C10_MoldStepEffect ==
    [][(pc = "molds" /\ pc' = "chatbot") =>
          /\ Len(results') = Len(LastCalls)
          /\ messages' = messages \o
                Flatten([i \in 1..Len(LastCalls) |->
                            Owed(LastCalls[i], results'[i])])
          /\ \A i \in 1..Len(results') :
                results'[i].kind = "Command" =>
                    \A f \in (DOMAIN results'[i].update) \cap (DOMAIN fields) :
                        \/ fields'[f] = results'[i].update[f]
                        \/ \E j \in (i + 1)..Len(results') :
                              /\ results'[j].kind = "Command"
                              /\ f \in DOMAIN results'[j].update]_vars

\* one mold returned one message and the update profile = "A"
C10_Witness ==
    /\ pc = "chatbot"
    /\ Len(results) = 1
    /\ results[1].kind = "Command"
    /\ MSG \in DOMAIN results[1].update
    /\ Len(results[1].update[MSG]) = 1
    /\ results[1].update[<<"profile">>] = "A"
    /\ fields[<<"profile">>] = "A"
    /\ Last(messages) = results[1].update[MSG][1]

\* the field a declaration registers: the function's name without _mold
FieldOf(func_name) == replace_mold(func_name)

\* C11: the assembled state has the key "messages" and, beyond it, exactly
\* the fields of the molds it was given that are keys of the registry: a
\* mold whose field is not registered adds nothing and raises nothing, a
\* registered field of no given mold is absent, no mold gives "messages"
\* alone, and the keys depend on the molds and the registry only.
C11_AssembledShape ==
    shape # NoShape =>
        LET given == {FieldOf(shape.molds[i].func) : i \in 1..Len(shape.molds)}
        IN /\ MSG \in shape.keys
           /\ shape.keys \ {MSG} = given \cap DOMAIN shape.registry
           /\ shape.molds = <<>> => shape.keys = {MSG}

\* two molds were given, one of a function whose name holds _mold and
\* whose field is registered, one whose field is not registered, while a
\* registered field belongs to neither
C11_Witness ==
    /\ shape # NoShape
    /\ Len(shape.molds) = 2
    /\ \E i \in 1..2 :
          /\ Marked(shape.molds[i].func)
          /\ FieldOf(shape.molds[i].func) \in shape.keys
    /\ \E i \in 1..2 : FieldOf(shape.molds[i].func) \notin DOMAIN shape.registry
    /\ \E f \in DOMAIN shape.registry : f \notin shape.keys

\* the declarations of field f, as positions
DeclarationsOf(f) ==
    {i \in 1..Len(declarations) : FieldOf(declarations[i].name) = f}

TypedDeclarationsOf(f) ==
    {i \in DeclarationsOf(f) : declarations[i].annotation # Empty}

\* C12 as claimed: every registered name carries the type of the most
\* recent declaration of that name.
C12_LastDeclarationWins ==
    \A f \in DOMAIN registry :
        registry[f] = declarations[Max(DeclarationsOf(f))].annotation

\* C12 as amended: no step removes a key of the registry; a name is
\* registered exactly when some declaration of it carried a type, and its
\* recorded type is that of the most recent such declaration.
C12_LastTypedDeclarationWins ==
    /\ [][DOMAIN registry \subseteq DOMAIN registry']_vars
    /\ [](\A i \in 1..Len(declarations) :
             LET f == FieldOf(declarations[i].name) IN
             /\ TypedDeclarationsOf(f) # {} =>
                   /\ f \in DOMAIN registry
                   /\ registry[f] =
                         declarations[Max(TypedDeclarationsOf(f))].annotation
             /\ TypedDeclarationsOf(f) = {} => f \notin DOMAIN registry)

\* a name declared with one type, then with another, then without any
C12_Witness ==
    \E f \in DOMAIN registry : \E i, j \in TypedDeclarationsOf(f) :
        /\ i < j
        /\ declarations[i].annotation # declarations[j].annotation
        /\ Max(DeclarationsOf(f)) > j
        /\ shape # NoShape

\* C13: called on a state whose history is empty, smart_route raises and
\* gives no routing outcome, and each node callable raises rather than
\* returning an update (ValueError in BasicToolNode, IndexError in the other
\* two).
C13_EmptyHistoryFails ==
    (pc = "called" /\ messages = <<>>) =>
        /\ returned.kind = "raise"
        /\ returned.error \in {"IndexError", "ValueError"}
        /\ invoked = <<>>

C13_Witness ==
    /\ pc = "called"
    /\ messages = <<>>
    /\ returned = Raises("tools", "ValueError")

\* C14: the step at which a node raises (KeyError for an unknown name, the
\* handler's exception, the model's exception) ends the run: it leaves the
\* history and every field as they were, whatever the earlier actions of
\* the same batch returned, and no step follows it.
C14_FailureWritesNothing ==
    [][/\ pc # "failed"
       /\ (pc' = "failed") = (err' # None)
       /\ pc' = "failed" => (messages' = messages /\ fields' = fields)]_vars

\* a handler raised after an earlier Command of the same batch had named
\* messages and fields
C14_Witness ==
    /\ pc = "failed"
    /\ err = "ActionError"
    /\ \E i \in 1..Len(results) :
          /\ results[i].kind = "Command"
          /\ MSG \in DOMAIN results[i].update
          /\ <<"profile">> \in DOMAIN results[i].update

C16_ReasoningStep ==
    [][pc = "chatbot" =>
          /\ llm_calls' = llm_calls + 1
          /\ Range(bound_tools') = tools_by_name \cup mold_tools_by_name
          /\ invoked' = invoked
          /\ fields' = fields
          /\ pc' \in {"route", "failed"}
          /\ pc' = "route" =>
                /\ Len(messages') = Len(messages) + 1
                /\ SubSeq(messages', 1, Len(messages)) = messages
                /\ IsModelResponse(Last(messages'))
          /\ pc' = "failed" => messages' = messages]_vars

\* the second chatbot step of a run has answered with two requested actions,
\* after a mold step that wrote a field
C16_Witness ==
    /\ pc = "route"
    /\ llm_calls = 2
    /\ Len(Last(messages).tool_calls) = 2
    /\ fields[<<"profile">>] # None

\* the history the last chatbot step was given
Seen ==
    IF pc = "route" THEN SubSeq(messages, 1, Len(messages) - 1) ELSE messages

AfterChatbot == pc = "route" \/ (pc = "failed" /\ err = "ModelError")

\* C17 as stated: the system prompt is put in front of the model's input at
\* the first chatbot step of a run only (when it is non-empty and the
\* history has no system message); at every later chatbot step the model's
\* input is the history unchanged.
C17_DirectiveOnFirstOnly ==
    AfterChatbot =>
        llm_input = IF llm_calls = 1 /\ prompt # "" /\ ~has_system(Seen)
                    THEN <<SystemMessage(prompt)>> \o Seen
                    ELSE Seen

\* C17 amended: the system prompt is put in front of the model's input at
\* every chatbot step at which it is non-empty and the history has no system
\* message, the later steps of a run included, because the prompt is never
\* stored in the history; with an empty prompt or a system message in the
\* history the model's input is the history unchanged.
C17_DirectiveWheneverAbsent ==
    /\ [](AfterChatbot =>
            llm_input = IF prompt # "" /\ ~has_system(Seen)
                        THEN <<SystemMessage(prompt)>> \o Seen
                        ELSE Seen)
    /\ [][has_system(messages') = has_system(messages)]_vars

\* the second chatbot step of a run was given the system prompt again
C17_Witness ==
    /\ pc = "route"
    /\ llm_calls = 2
    /\ prompt # ""
    /\ ~has_system(messages)
    /\ llm_input = <<SystemMessage(prompt)>> \o Seen

\* the invocations and the appended messages of the step just taken
NewInvoked == SubSeq(invoked', Len(invoked) + 1, Len(invoked'))

NewMessages == SubSeq(messages', Len(messages) + 1, Len(messages'))

\* a mold step passes over every requested action whose name does not end
\* with _mold: no handler invoked for it, no message answering its id, and
\* a KeyError only for a marked name that is not in the molds table
SkipsUnmarked ==
    [][pc = "molds" =>
          /\ \A i \in 1..Len(LastCalls) :
                ~Marked(LastCalls[i].name) =>
                    /\ \A j \in 1..Len(NewInvoked) :
                          NewInvoked[j].id # LastCalls[i].id
                    /\ \A j \in 1..Len(NewMessages) :
                          NewMessages[j].tool_call_id # LastCalls[i].id
          /\ err' = "KeyError" =>
                \E i \in 1..Len(LastCalls) :
                    /\ Marked(LastCalls[i].name)
                    /\ LastCalls[i].name \notin mold_tools_by_name]_vars

\* C18: the mold node passes over every requested action whose name does
\* not end with _mold (no handler invoked for it, no message answering its
\* id, no failure because of it even when no table has the name) and
\* processes the marked ones; and every batch smart_route sends to the mold
\* node has marked names only.
C18_SkipsUnmarkedHomogeneous ==
    /\ SkipsUnmarked
    /\ [](pc = "molds" =>
            \A i \in 1..Len(LastCalls) : Marked(LastCalls[i].name))

\* C19: a run whose model answers with no requested actions ends at the
\* step that follows (the runner being fair); a run ends only after such an
\* answer, so it does not end while every answer requests an action; and
\* nothing but END or a failure stops a run: wherever else it stands, a next
\* step exists.
C19_EndsIffModelStops ==
    /\ (pc = "route" /\ Last(messages).tool_calls = <<>>) ~> (pc = "END")
    /\ [](pc = "END" =>
            \E k \in Responded : messages[k].tool_calls = <<>>)
    /\ [](pc \notin {"END", "failed"} => ENABLED <<Next>>_vars)

\* a run has ended after going round the loop: two model calls, a node step
\* in between
C19_Witness ==
    /\ pc = "END"
    /\ llm_calls >= 2
    /\ Len(invoked) >= 1

\* C20: in a run of the compiled graph the history is not empty when
\* smart_route is evaluated; when a node is entered the last message is a
\* model response with at least one requested action; no name of the batch
\* the tool node is given ends with _mold, and some name of the batch the
\* mold node is given does.
C20_WellFormedLastMessage ==
    /\ pc = "route" => messages # <<>>
    /\ pc \in {"tools", "molds"} =>
          /\ messages # <<>>
          /\ IsModelResponse(Last(messages))
          /\ Len(Last(messages).tool_calls) >= 1
    /\ pc = "tools" =>
          \A i \in 1..Len(LastCalls) : ~Marked(LastCalls[i].name)
    /\ pc = "molds" =>
          \E i \in 1..Len(LastCalls) : Marked(LastCalls[i].name)

\* a run started on an empty history stands at the mold node with a mixed
\* batch
C20_Witness ==
    /\ pc = "molds"
    /\ Len(messages) = 1
    /\ \E i, j \in 1..Len(LastCalls) :
          Marked(LastCalls[i].name) /\ ~Marked(LastCalls[j].name)

====
